---- MODULE Spec2Model ----
(***************************************************************************)
(* Model of word_cookies/solver.py: load_dict, word_works, match_words and *)
(* the script's main block.  Strings are sequences of one-character        *)
(* strings.  word_works is modelled twice from the same loop body          *)
(* (ForLetterBody): as small steps of its for-loop (SpecWord) and as the   *)
(* function the callers see (operator word_works, used by match_words).    *)
(***************************************************************************)
EXTENDS Naturals, Sequences, FiniteSets

VARIABLES pc, letters, word, allow_repeats, letters_remaining, k, ret,
          dictionary, results, log, file, output

vars == <<pc, letters, word, allow_repeats, letters_remaining, k, ret,
          dictionary, results, log, file, output>>

(* ------------------------------ bounds --------------------------------- *)
MaxPoolLen == 3
MaxWordLen == 3
MaxLettersLen == 2
MaxEntryLen == 2
MaxDictLen == 2
MaxFileLen == 4

Chars == {"a", "b", "A"}
EntryChars == {"a", "b"}
FileChars == {"a", "A", " ", "\n"}

None == "None"

SeqsUpTo(S, n) == UNION {[1..m -> S] : m \in 0..n}

(* ----------------------- string primitives ----------------------------- *)
\* str.lower() on one character of the modelled alphabet
LowerChar(c) == IF c = "A" THEN "a" ELSE c

\* the pool taken as typed, .lower() forgotten
NoLower(s) == s

\* str.lower()
lower(s) == [i \in 1..Len(s) |-> LowerChar(s[i])]

\* `letter in s` for a one-character letter
Contains(s, letter) == \E i \in 1..Len(s) : s[i] = letter

\* s.replace(letter, '') with the count forgotten: every occurrence goes
ReplaceEvery(s, letter) == SelectSeq(s, LAMBDA c : c # letter)

\* s.replace(letter, '', 1): the first occurrence of letter is removed
ReplaceFirst(s, letter) ==
    IF ~Contains(s, letter) THEN s
    ELSE LET i == CHOOSE j \in 1..Len(s) :
                      s[j] = letter /\ \A h \in 1..(j-1) : s[h] # letter
         IN  SubSeq(s, 1, i-1) \o SubSeq(s, i+1, Len(s))

\* str.isspace() on one character of the modelled alphabet
IsSpace(c) == c \in {" ", "\n"}

RECURSIVE lstrip(_)
lstrip(s) == IF s # <<>> /\ IsSpace(Head(s)) THEN lstrip(Tail(s)) ELSE s

RECURSIVE rstrip(_)
rstrip(s) == IF s # <<>> /\ IsSpace(s[Len(s)])
             THEN rstrip(SubSeq(s, 1, Len(s)-1)) ELSE s

\* str.strip()
strip(s) == rstrip(lstrip(s))

\* file.readlines(): the text cut after every newline, newlines kept
RECURSIVE readlines(_)
readlines(f) ==
    IF f = <<>> THEN <<>>
    ELSE IF ~Contains(f, "\n") THEN <<f>>
    ELSE LET n == CHOOSE j \in 1..Len(f) :
                      f[j] = "\n" /\ \A h \in 1..(j-1) : f[h] # "\n"
         IN  <<SubSeq(f, 1, n)>> \o readlines(SubSeq(f, n+1, Len(f)))

(* ------------------------------ load_dict ------------------------------ *)
\* load_dict with `if x.strip()` in the comprehension: blank lines dropped
load_dict_skips_blank(f) ==
    SelectSeq([i \in 1..Len(readlines(f)) |-> lower(strip(readlines(f)[i]))],
              LAMBDA w : w # <<>>)

load_dict(f) ==
    LET content == readlines(f)
    IN  [i \in 1..Len(content) |-> lower(strip(content[i]))]

(* ------------------------------ word_works ----------------------------- *)
\* the loop body with the removal forgotten: membership only
ForLetterBodyNoRemoval(remaining, letter, repeats) ==
    [found |-> Contains(remaining, letter), remaining |-> remaining]

\* the loop body with the policy test forgotten: always consumes
ForLetterBodyAlwaysRemoves(remaining, letter, repeats) ==
    [found |-> Contains(remaining, letter),
     remaining |-> ReplaceFirst(remaining, letter)]

\* the loop body with the policy test inverted: `if allow_repeats:`
ForLetterBodyFlagInverted(remaining, letter, repeats) ==
    [found |-> Contains(remaining, letter),
     remaining |-> IF repeats THEN ReplaceFirst(remaining, letter)
                   ELSE remaining]

\* One pass of the body of `for letter in word`: whether the letter was
\* found, and the working copy afterwards.
ForLetterBody(remaining, letter, repeats) ==
    IF Contains(remaining, letter)
    THEN [found |-> TRUE,
          remaining |-> IF ~repeats THEN ReplaceFirst(remaining, letter)
                        ELSE remaining]
    ELSE [found |-> FALSE, remaining |-> remaining]

\* the loop run over word[:-1]: the last character is never looked up
RECURSIVE ForLetterLoopSkipsLast(_, _, _, _)
ForLetterLoopSkipsLast(remaining, w, n, repeats) ==
    IF n + 1 >= Len(w) THEN TRUE
    ELSE LET b == ForLetterBody(remaining, w[n+1], repeats)
         IN  IF b.found
             THEN ForLetterLoopSkipsLast(b.remaining, w, n+1, repeats)
             ELSE FALSE

RECURSIVE ForLetterLoop(_, _, _, _)
ForLetterLoop(remaining, w, n, repeats) ==
    IF n = Len(w) THEN TRUE
    ELSE LET b == ForLetterBody(remaining, w[n+1], repeats)
         IN  IF b.found THEN ForLetterLoop(b.remaining, w, n+1, repeats)
             ELSE FALSE

\* word_works with an `if not word: return False` guard in front
word_works_rejects_empty(ls, w, repeats) ==
    w # <<>> /\ ForLetterLoop(lower(ls), w, 0, repeats)

word_works(ls, w, repeats) == ForLetterLoop(lower(ls), w, 0, repeats)

\* word_works, small steps -------------------------------------------------
WordWorksEntry ==
    /\ pc = "ww_call"
    /\ letters_remaining' = lower(letters)
    /\ k' = 0
    /\ pc' = "for_letter"
    /\ UNCHANGED <<letters, word, allow_repeats, ret,
                   dictionary, results, log, file, output>>

ForLetterFound ==
    /\ pc = "for_letter"
    /\ k < Len(word)
    /\ LET b == ForLetterBody(letters_remaining, word[k+1], allow_repeats)
       IN  /\ b.found
           /\ letters_remaining' = b.remaining
    /\ k' = k + 1
    /\ UNCHANGED <<pc, letters, word, allow_repeats, ret,
                   dictionary, results, log, file, output>>

ForLetterMissing ==
    /\ pc = "for_letter"
    /\ k < Len(word)
    /\ ~ForLetterBody(letters_remaining, word[k+1], allow_repeats).found
    /\ ret' = FALSE
    /\ pc' = "ww_return"
    /\ UNCHANGED <<letters, word, allow_repeats, letters_remaining, k,
                   dictionary, results, log, file, output>>

ForLetterDone ==
    /\ pc = "for_letter"
    /\ k = Len(word)
    /\ ret' = TRUE
    /\ pc' = "ww_return"
    /\ UNCHANGED <<letters, word, allow_repeats, letters_remaining, k,
                   dictionary, results, log, file, output>>

InitWord ==
    /\ pc = "ww_call"
    /\ letters \in SeqsUpTo(Chars, MaxPoolLen)
    /\ word \in SeqsUpTo(Chars, MaxWordLen)
    /\ allow_repeats \in BOOLEAN
    /\ letters_remaining = <<>>
    /\ k = 0
    /\ ret = None
    /\ dictionary = <<>>
    /\ results = <<>>
    /\ log = [r \in BOOLEAN |-> None]
    /\ file = <<>>
    /\ output = None

NextWord ==
    \/ WordWorksEntry
    \/ ForLetterFound
    \/ ForLetterMissing
    \/ ForLetterDone

SpecWord == InitWord /\ [][NextWord]_vars

(* ------------------------------ match_words ---------------------------- *)
\* the append guarded by `word not in results` as well: duplicates dropped
IfWordWorksOnce(rs, w, ok) ==
    IF ok /\ ~(\E i \in 1..Len(rs) : rs[i] = w) THEN Append(rs, w) ELSE rs

\* results.append(word), guarded by `if word_works(...)`
IfWordWorks(rs, w, ok) == IF ok THEN Append(rs, w) ELSE rs

RECURSIVE ForWordLoop(_, _, _, _, _)
ForWordLoop(ls, dict, i, rs, repeats) ==
    IF i > Len(dict) THEN rs
    ELSE ForWordLoop(ls, dict, i + 1,
                     IfWordWorks(rs, dict[i], word_works(ls, dict[i], repeats)),
                     repeats)

match_words(ls, dict, repeats) == ForWordLoop(ls, dict, 1, <<>>, repeats)

\* match_words filtering the caller's list in place and returning it
CallMatchWordsInPlace ==
    /\ pc = "idle"
    /\ \E r \in BOOLEAN :
          /\ allow_repeats' = r
          /\ results' = match_words(letters, dictionary, r)
          /\ dictionary' = match_words(letters, dictionary, r)
    /\ pc' = "mw_return"
    /\ UNCHANGED <<letters, word, letters_remaining, k, ret,
                   log, file, output>>

\* a caller holding letters and dictionary calls match_words, under either
\* policy, as often as it likes
CallMatchWords ==
    /\ pc = "idle"
    /\ \E r \in BOOLEAN :
          /\ allow_repeats' = r
          /\ results' = match_words(letters, dictionary, r)
    /\ pc' = "mw_return"
    /\ UNCHANGED <<letters, word, letters_remaining, k, ret,
                   dictionary, log, file, output>>

\* `return results`; log keeps what the first call under each policy returned
MatchWordsReturn ==
    /\ pc = "mw_return"
    /\ log' = IF log[allow_repeats] = None
              THEN [log EXCEPT ![allow_repeats] = results] ELSE log
    /\ pc' = "idle"
    /\ UNCHANGED <<letters, word, allow_repeats, letters_remaining, k, ret,
                   dictionary, results, file, output>>

InitMatch ==
    /\ pc = "idle"
    /\ letters \in SeqsUpTo(Chars, MaxLettersLen)
    /\ dictionary \in SeqsUpTo(SeqsUpTo(EntryChars, MaxEntryLen), MaxDictLen)
    /\ allow_repeats = FALSE
    /\ word = <<>>
    /\ letters_remaining = <<>>
    /\ k = 0
    /\ ret = None
    /\ results = <<>>
    /\ log = [r \in BOOLEAN |-> None]
    /\ file = <<>>
    /\ output = None

NextMatch ==
    \/ CallMatchWords
    \/ MatchWordsReturn

SpecMatch == InitMatch /\ [][NextMatch]_vars

(* --------------------------------- main -------------------------------- *)
MainLoadDict ==
    /\ pc = "main"
    /\ dictionary' = load_dict(file)
    /\ pc' = "main_loaded"
    /\ UNCHANGED <<letters, word, allow_repeats, letters_remaining, k, ret,
                   results, log, file, output>>

MainMatchWords ==
    /\ pc = "main_loaded"
    /\ results' = match_words(letters, dictionary, allow_repeats)
    /\ pc' = "main_matched"
    /\ UNCHANGED <<letters, word, allow_repeats, letters_remaining, k, ret,
                   dictionary, log, file, output>>

MainPrint ==
    /\ pc = "main_matched"
    /\ output' = results
    /\ pc' = "done"
    /\ UNCHANGED <<letters, word, allow_repeats, letters_remaining, k, ret,
                   dictionary, results, log, file>>

InitMain ==
    /\ pc = "main"
    /\ file \in SeqsUpTo(FileChars, MaxFileLen)
    /\ letters \in SeqsUpTo(Chars, MaxLettersLen)
    /\ allow_repeats \in BOOLEAN
    /\ dictionary = <<>>
    /\ word = <<>>
    /\ letters_remaining = <<>>
    /\ k = 0
    /\ ret = None
    /\ results = <<>>
    /\ log = [r \in BOOLEAN |-> None]
    /\ output = None

NextMain ==
    \/ MainLoadDict
    \/ MainMatchWords
    \/ MainPrint

SpecMain == InitMain /\ [][NextMain]_vars

(* ------------------- vocabulary of the properties ---------------------- *)
Count(s, c) == Cardinality({i \in 1..Len(s) : s[i] = c})

CharsOf(s) == {s[i] : i \in 1..Len(s)}

IsUpper(c) == LowerChar(c) # c

RECURSIVE IsSubseq(_, _)
IsSubseq(s, t) ==
    IF s = <<>> THEN TRUE
    ELSE IF t = <<>> THEN FALSE
    ELSE IF Head(s) = Head(t) THEN IsSubseq(Tail(s), Tail(t))
    ELSE IsSubseq(s, Tail(t))

Returned == pc = "ww_return"

(* ------------------------ word_works properties ------------------------ *)
\* C1: with allow_repeats=False, word_works returns True exactly when every
\* distinct character of the word occurs in the word at most as often as in
\* the lower-cased pool.
C1_NonRepeatCounts ==
    (Returned /\ ~allow_repeats) =>
        (ret = (\A c \in CharsOf(word) :
                    Count(word, c) <= Count(lower(letters), c)))

\* a three-letter word with a doubled letter, spelled from a pool holding an
\* upper-case tile
C1_Witness ==
    /\ Returned /\ ~allow_repeats /\ ret = TRUE
    /\ Len(word) = 3
    /\ \E c \in CharsOf(word) : Count(word, c) = 2
    /\ \E i \in 1..Len(letters) : IsUpper(letters[i])

\* C2: with allow_repeats=True, word_works returns True exactly when every
\* distinct character of the word occurs at least once in the lower-cased
\* pool, however often the word uses it.
C2_RepeatMembership ==
    (Returned /\ allow_repeats) =>
        (ret = (\A c \in CharsOf(word) : Count(lower(letters), c) >= 1))

\* a word accepted although it uses a letter more often than the pool has it
C2_Witness ==
    /\ Returned /\ allow_repeats /\ ret = TRUE
    /\ \E c \in CharsOf(word) : Count(word, c) > Count(lower(letters), c)

\* C8: the result is the same for every pool that differs from the given
\* one only in letter case, and a word holding an upper-case letter is
\* rejected under both policies.
C8_CaseAsymmetry ==
    Returned =>
        /\ \A other \in SeqsUpTo(Chars, Len(letters)) :
               lower(other) = lower(letters) =>
                   word_works(other, word, allow_repeats) = ret
        /\ (\E i \in 1..Len(word) : IsUpper(word[i])) => ret = FALSE

\* word "A" family rejected although the pool holds the letter in both cases
C8_Witness ==
    /\ Returned /\ ret = FALSE
    /\ Contains(word, "A")
    /\ Contains(letters, "A") /\ Contains(letters, "a")

\* C10: the working copy.  Non-repeat: after k characters were found it is
\* the lower-cased pool less one occurrence of each of them (length |pool|-k,
\* order kept); repeat: it stays the lower-cased pool.  The first character
\* that is not in the working copy ends the call with False on the spot, and
\* nothing else does.
C10_CopyInv ==
    pc \in {"for_letter", "ww_return"} =>
        /\ allow_repeats => letters_remaining = lower(letters)
        /\ ~allow_repeats =>
              /\ Len(letters_remaining) + k = Len(lower(letters))
              /\ IsSubseq(letters_remaining, lower(letters))
              /\ \A c \in Chars :
                     Count(letters_remaining, c) + Count(SubSeq(word, 1, k), c)
                         = Count(lower(letters), c)
        /\ (Returned /\ ret = FALSE) =>
              (k < Len(word) /\ ~Contains(letters_remaining, word[k+1]))

C10_ShortCircuit ==
    (pc = "for_letter" /\ k < Len(word)
        /\ ~Contains(letters_remaining, word[k+1]))
    => (pc' = "ww_return" /\ ret' = FALSE /\ k' = k
        /\ letters_remaining' = letters_remaining)

C10_WorkingCopy == [](C10_CopyInv) /\ [][C10_ShortCircuit]_vars

\* one letter consumed, then a failure with a character still unexamined
C10_Witness ==
    /\ Returned /\ ret = FALSE /\ ~allow_repeats
    /\ k = 1 /\ Len(word) = 3
    /\ Len(letters_remaining) = 2

(* ----------------------- match_words properties ------------------------ *)
MatchReturned == pc = "mw_return"

IsEmptyWord(w) == w = <<>>

\* C3: match_words returns exactly the dictionary entries that pass
\* word_works, in dictionary order and with their multiplicity.
C3_FilterInOrder ==
    MatchReturned =>
        results = SelectSeq(dictionary,
                            LAMBDA w : word_works(letters, w, allow_repeats))

\* a word listed twice comes out twice
C3_Witness ==
    /\ MatchReturned
    /\ Len(dictionary) = 2 /\ dictionary[1] = dictionary[2]
    /\ dictionary[1] # <<>>
    /\ results = dictionary

\* C4: whatever the non-repeat policy accepts the repeat policy accepts, so
\* the non-repeat result is a subsequence of the repeat result.
C4_Monotone ==
    /\ (MatchReturned /\ ~allow_repeats) =>
           \A i \in 1..Len(results) : word_works(letters, results[i], TRUE)
    /\ (log[FALSE] # None /\ log[TRUE] # None)
           => IsSubseq(log[FALSE], log[TRUE])

\* both policies were run and the repeat policy accepted strictly more
C4_Witness ==
    /\ log[FALSE] # None /\ log[TRUE] # None
    /\ log[FALSE] # <<>>
    /\ Len(log[FALSE]) < Len(log[TRUE])

\* C5 as stated: with letters = "" the returned list is empty.
C5_EmptyPoolNoMatches ==
    (MatchReturned /\ letters = <<>>) => results = <<>>

\* C5 as amended: with letters = "" the returned list holds the dictionary's
\* empty-string entries and nothing else, under both policies.
C5_EmptyPoolOnlyEmptyWords ==
    (MatchReturned /\ letters = <<>>) =>
        results = SelectSeq(dictionary, IsEmptyWord)

\* match_words("", ["a", ""]) has returned [""]
C5_Witness ==
    /\ MatchReturned /\ letters = <<>>
    /\ dictionary = << <<"a">>, <<>> >>
    /\ results = << <<>> >>

\* C6: the empty word passes under both policies for every pool, so the
\* empty-string entries of the dictionary all reach the output.
C6_EmptyWordAccepted ==
    MatchReturned =>
        /\ \A r \in BOOLEAN : word_works(letters, <<>>, r)
        /\ SelectSeq(results, IsEmptyWord) = SelectSeq(dictionary, IsEmptyWord)

\* two empty entries passed through against the empty pool, repeat policy
C6_Witness ==
    /\ MatchReturned /\ allow_repeats /\ letters = <<>>
    /\ dictionary = << <<>>, <<>> >>
    /\ results = dictionary

\* C7: a call never changes letters or dictionary, and a call that repeats
\* an earlier call's inputs returns what that call returned, whatever calls
\* came in between.
C7_Step ==
    /\ letters' = letters
    /\ dictionary' = dictionary
    /\ (pc' = "mw_return" /\ log'[allow_repeats'] # None)
           => results' = log'[allow_repeats']

C7_Pure == [][C7_Step]_vars

\* a repeated call returning a non-empty list after a call under the other
\* policy
C7_Witness ==
    /\ MatchReturned
    /\ log[allow_repeats] # None /\ log[~allow_repeats] # None
    /\ results # <<>>

(* ------------------------- load_dict properties ------------------------ *)
Newlines(f) == {i \in 1..Len(f) : f[i] = "\n"}

NumLines(f) ==
    Cardinality(Newlines(f))
        + (IF f # <<>> /\ f[Len(f)] # "\n" THEN 1 ELSE 0)

\* positions of the n-th line of f, its newline included
LineOf(f, n) ==
    {i \in 1..Len(f) : Cardinality({j \in Newlines(f) : j < i}) = n - 1}

\* the n-th line without its surrounding whitespace, lower-cased
ExpectedEntry(f, n) ==
    LET solid == {i \in LineOf(f, n) : ~IsSpace(f[i])}
    IN  IF solid = {} THEN <<>>
        ELSE LET lo == CHOOSE i \in solid : \A j \in solid : i <= j
                 hi == CHOOSE i \in solid : \A j \in solid : j <= i
             IN  [i \in 1..(hi - lo + 1) |-> LowerChar(f[lo + i - 1])]

ExpectedDict(f) == [n \in 1..NumLines(f) |-> ExpectedEntry(f, n)]

\* C9: load_dict returns one entry per line, in file order, each the line
\* stripped and lower-cased; nothing is dropped, and match_words works on
\* exactly that list.
C9_LoadDict ==
    /\ pc \in {"main_loaded", "main_matched", "done"} =>
           dictionary = ExpectedDict(file)
    /\ pc \in {"main_matched", "done"} =>
           results = SelectSeq(ExpectedDict(file),
                               LAMBDA w : word_works(letters, w, allow_repeats))

\* " A\n\n" was loaded as ["a", ""] and the blank entry was printed
C9_Witness ==
    /\ pc = "done"
    /\ file = <<" ", "A", "\n", "\n">>
    /\ dictionary = << <<"a">>, <<>> >>
    /\ \E i \in 1..Len(output) : output[i] = <<>>

====
